---- MODULE Spec2Model ----
(***************************************************************************)
(* Model of app/static/script.js: the browser client of the dev-agent      *)
(* web application.  The page loads the tool catalog (GET /tools), renders *)
(* one checkbox per tool, creates a session (POST /sessions/create) and    *)
(* sends queries (POST /query).  Every handler is an async function: it    *)
(* runs synchronously up to its fetch, suspends, and resumes when the      *)
(* response is handled.  Each handler is therefore two actions: the click  *)
(* (up to the issued request) and the resume (from the response on).       *)
(* Requests in flight are resolved by the server in any order.             *)
(***************************************************************************)
EXTENDS Integers, Sequences, FiniteSets, TLC

(* ---------------- bounds of the model ---------------- *)
\* requests (create-session and query together) issued by clicks
MaxRequests == 3
\* length of the tool catalog returned by GET /tools
MaxTools == 2

(* ---------------- JavaScript values ---------------- *)
Null == [t |-> "null", v |-> ""]
Undefined == [t |-> "undefined", v |-> ""]
Str(s) == [t |-> "string", v |-> s]
Array(items) == [t |-> "array", items |-> items]

\* the tools the server may list
ToolSet == { [name |-> "search", description |-> "web search"],
             [name |-> "calc", description |-> "calculator"] }
\* session ids the server may hand out
SessionIds == {"abc123", "xyz789"}
\* response texts the server may return
ResponseTexts == {"hello", "bye"}
\* contents of the query input box at the time of a click
Queries == {"", "hi"}
\* text the chat display holds before any query (the page's markup)
InitialChat == {"", "placeholder"}

\* value of a session_id property of a response body (Undefined: absent)
SessionIdValues == {Str(s) : s \in SessionIds} \cup {Null, Undefined}
\* value of a response property of a response body (Undefined: absent)
ResponseValues == {Str(s) : s \in ResponseTexts} \cup {Undefined}

\* sequences over S of length at most n
SeqUpTo(S, n) == UNION {[1..k -> S] : k \in 0..n}

(* ---------------- HTTP responses ---------------- *)
\* outcome "network": fetch rejects; "status": response.ok is false;
\* "badjson": response.json() rejects; "ok": 2xx with a JSON body.
\* A JSON body is the literal null or an object.
FailOutcomes == {"network", "status", "badjson"}
Failure(o) == [outcome |-> o, body |-> Null]
Ok(b) == [outcome |-> "ok", body |-> b]

ToolsBodies == {Null, [t |-> "object", tools |-> Undefined]}
                 \cup {[t |-> "object", tools |-> Array(ts)] : ts \in SeqUpTo(ToolSet, MaxTools)}
CreateBodies == {Null} \cup {[t |-> "object", session_id |-> v] : v \in SessionIdValues}
QueryBodies == {Null} \cup {[t |-> "object", response |-> v] : v \in ResponseValues}

ToolsResponses == {Failure(o) : o \in FailOutcomes} \cup {Ok(b) : b \in ToolsBodies}
CreateResponses == {Failure(o) : o \in FailOutcomes} \cup {Ok(b) : b \in CreateBodies}
QueryResponses == {Failure(o) : o \in FailOutcomes} \cup {Ok(b) : b \in QueryBodies}

(* ---------------- state ---------------- *)
VARIABLES
    pcLoad,           \* position of the DOMContentLoaded handler
    toolsRequests,    \* number of GET /tools requests issued
    toolList,         \* the global toolList
    container,        \* entries appended to #tool-container, in document order
    checked,          \* indices of the checked checkboxes of the container
    listeners,        \* TRUE when the two click listeners are attached
    currentSessinId,  \* the global currentSessinId
    chat,             \* textContent of #chat-content-tmp
    pendingCreate,    \* POST /sessions/create requests in flight
    pendingQuery,     \* POST /query requests in flight
    nreq,             \* number of create-session and query requests issued
    lastOk,           \* history: the create-session response assigned last
                      \* (its request, its session_id, the id it replaced)
    lastOkQuery,      \* history: number of the query whose response was displayed last
    last              \* history: what the handler step taken last did

vars == <<pcLoad, toolsRequests, toolList, container, checked, listeners,
          currentSessinId, chat, pendingCreate, pendingQuery, nreq,
          lastOk, lastOkQuery, last>>

userId == "default_user"

\* a handler step: which step, the alert shown, whether a request was issued,
\* whether console.error was called, the response handled, the stored state
\* right before the step (sidPre, chatPre) and at the click that issued the
\* handled request (sidClick, chatClick), and whether a response assigned by
\* the same kind of handler came in between the click and this step (between)
Step(op, alert, request, logged, resp, sidClick, chatClick, between) ==
    [op |-> op, alert |-> alert, request |-> request, logged |-> logged,
     resp |-> resp, sidPre |-> currentSessinId, chatPre |-> chat,
     sidClick |-> sidClick, chatClick |-> chatClick, between |-> between]

NoStep == [op |-> "none", alert |-> "none", request |-> FALSE, logged |-> FALSE,
           resp |-> Failure("network"), sidPre |-> Null, chatPre |-> "",
           sidClick |-> Null, chatClick |-> "", between |-> FALSE]

(* ---------------- pure parts of the handlers ---------------- *)
\* variant: the strict comparison v === null, which undefined passes
LooseEqNull_Strict(v) == v.t = "null"

\* v == null of JavaScript: true of null and of undefined
LooseEqNull(v) == v.t \in {"null", "undefined"}

\* variant: the catch block of callCreateSession returns an empty object
callCreateSession_EmptyObject(resp) ==
    IF resp.outcome = "ok" THEN resp.body
    ELSE [t |-> "object", session_id |-> Undefined]

\* the value a call* function returns: the parsed body, or undefined after
\* the catch block logged the error
callGetToolList(resp) == IF resp.outcome = "ok" THEN resp.body ELSE Undefined
callCreateSession(resp) == IF resp.outcome = "ok" THEN resp.body ELSE Undefined
callQuery(resp) == IF resp.outcome = "ok" THEN resp.body ELSE Undefined
\* console.error runs exactly in the catch block
Logged(resp) == resp.outcome # "ok"

\* the string a value becomes when assigned to textContent (a nullable
\* DOMString: null and undefined become the empty string)
ToText(v) == IF v.t = "string" THEN v.v ELSE ""

\* one container entry per tool: checkbox id and value, label, description
ToolItem(tool) == [id |-> tool.name, value |-> tool.name,
                   label |-> tool.name, description |-> tool.description]

\* variant: each entry is inserted before the entries already there
RECURSIVE RenderTools_Prepend(_, _)
RenderTools_Prepend(cont, tools) ==
    IF tools = <<>> THEN cont
    ELSE RenderTools_Prepend(<<ToolItem(Head(tools))>> \o cont, Tail(tools))

\* toolList.tools.forEach(...): appends one entry per tool, in order
RECURSIVE RenderTools(_, _)
RenderTools(cont, tools) ==
    IF tools = <<>> THEN cont
    ELSE RenderTools(Append(cont, ToolItem(Head(tools))), Tail(tools))

\* TRUE when initCheckbox throws: toolList is undefined or null, or
\* toolList.tools is not an array
InitCheckboxThrows(tl) == tl.t # "object" \/ tl.tools.t # "array"

\* values of the checked checkboxes, in document order
getSelectedTools(cont, chk) ==
    LET idx == SelectSeq([i \in 1..Len(cont) |-> i], LAMBDA i : i \in chk)
    IN [k \in 1..Len(idx) |-> cont[idx[k]].value]

\* variant: the length check is missing and the request is always issued
createSessionBranch_NoCheck(selectedTools) ==
    [alert |-> "none", request |-> TRUE]

\* createSession up to its request: alert or call
createSessionBranch(selectedTools) ==
    IF Len(selectedTools) = 0
    THEN [alert |-> "no_tools", request |-> FALSE]
    ELSE [alert |-> "none", request |-> TRUE]

\* variant: a session already held is kept (currentSessinId ??= ...)
createSessionAssign_Merge(cur, r, newSessinId) ==
    IF newSessinId.t = "object" /\ LooseEqNull(cur)
    THEN newSessinId.session_id ELSE cur

\* variant: optional chaining (newSessinId?.session_id) assigns undefined
\* when the call failed
createSessionAssign_Optional(cur, r, newSessinId) ==
    IF newSessinId.t = "object" THEN newSessinId.session_id ELSE Undefined

\* variant: a response is dropped when another create-session response was
\* assigned after the click that issued its request
createSessionAssign_Latest(cur, r, newSessinId) ==
    IF newSessinId.t = "object" /\ r.okClick = lastOk.req
    THEN newSessinId.session_id ELSE cur

\* createSession after its request: currentSessinId = newSessinId.session_id;
\* reading .session_id of undefined or null throws before the assignment.
\* r is the request this resume belongs to.
createSessionAssign(cur, r, newSessinId) ==
    IF newSessinId.t = "object" THEN newSessinId.session_id ELSE cur

\* variant: the missing-session check has no else branch and falls through
sendQueryBranch_Fallthrough(sid, query) ==
    IF query = ""
    THEN [alert |-> "empty_query", request |-> FALSE]
    ELSE [alert |-> IF LooseEqNull(sid) THEN "no_session" ELSE "none",
          request |-> TRUE]

\* sendQuery up to its request: alert or call
sendQueryBranch(sid, query) ==
    IF LooseEqNull(sid)
    THEN [alert |-> "no_session", request |-> FALSE]
    ELSE IF query = ""
         THEN [alert |-> "empty_query", request |-> FALSE]
         ELSE [alert |-> "none", request |-> TRUE]

\* variant: the response is appended to the displayed text (textContent +=)
sendQueryDisplay_Append(text, result) ==
    IF result.t = "object" THEN text \o ToText(result.response) ELSE text

\* sendQuery after its request: textContent = result.response; reading
\* .response of undefined or null throws before the assignment
sendQueryDisplay(text, result) ==
    IF result.t = "object" THEN ToText(result.response) ELSE text

(* ---------------- initial state ---------------- *)
Init ==
    /\ pcLoad = "init"
    /\ toolsRequests = 0
    /\ toolList = Undefined
    /\ container = <<>>
    /\ checked = {}
    /\ listeners = FALSE
    /\ currentSessinId = Null
    /\ chat \in InitialChat
    /\ pendingCreate = {}
    /\ pendingQuery = {}
    /\ nreq = 0
    /\ lastOk = [req |-> 0, sid |-> Null, prev |-> Null]
    /\ lastOkQuery = 0
    /\ last = NoStep

(* ---------------- page load ---------------- *)
\* DOMContentLoaded: initCheckbox runs up to the fetch of /tools
DOMContentLoaded ==
    /\ pcLoad = "init"
    /\ pcLoad' = "fetching"
    /\ toolsRequests' = toolsRequests + 1
    /\ last' = Step("DOMContentLoaded", "none", TRUE, FALSE, Failure("network"),
                    currentSessinId, chat, FALSE)
    /\ UNCHANGED <<toolList, container, checked, listeners, currentSessinId, chat,
                   pendingCreate, pendingQuery, nreq, lastOk, lastOkQuery>>

\* the /tools response is handled: initCheckbox renders the catalog and the
\* load handler attaches the click listeners, or initCheckbox throws and the
\* load handler ends at its await
initCheckboxResume(resp) ==
    /\ pcLoad = "fetching"
    /\ toolList' = callGetToolList(resp)
    /\ IF InitCheckboxThrows(toolList')
       THEN /\ pcLoad' = "aborted"
            /\ UNCHANGED <<container, listeners>>
       ELSE /\ pcLoad' = "ready"
            /\ container' = RenderTools(container, toolList'.tools.items)
            /\ listeners' = TRUE
    /\ last' = Step("initCheckbox", "none", FALSE, Logged(resp), resp,
                    currentSessinId, chat, FALSE)
    /\ UNCHANGED <<toolsRequests, checked, currentSessinId, chat,
                   pendingCreate, pendingQuery, nreq, lastOk, lastOkQuery>>

\* the user ticks or unticks a checkbox
ToggleCheckbox(i) ==
    /\ i \in 1..Len(container)
    /\ checked' = IF i \in checked THEN checked \ {i} ELSE checked \cup {i}
    /\ UNCHANGED <<pcLoad, toolsRequests, toolList, container, listeners,
                   currentSessinId, chat, pendingCreate, pendingQuery, nreq,
                   lastOk, lastOkQuery, last>>

(* ---------------- create session ---------------- *)
\* click on #create-session-btn: createSession up to the fetch
createSession ==
    /\ listeners
    /\ LET selectedTools == getSelectedTools(container, checked)
           b == createSessionBranch(selectedTools)
       IN /\ IF b.request
             THEN /\ nreq < MaxRequests
                  /\ nreq' = nreq + 1
                  /\ pendingCreate' = pendingCreate \cup
                        {[req |-> nreq + 1,
                          body |-> [user_id |-> userId, tool_names |-> selectedTools],
                          sidClick |-> currentSessinId,
                          okClick |-> lastOk.req]}
             ELSE UNCHANGED <<nreq, pendingCreate>>
          /\ last' = Step("createSession", b.alert, b.request, FALSE,
                          Failure("network"), currentSessinId, chat, FALSE)
    /\ UNCHANGED <<pcLoad, toolsRequests, toolList, container, checked, listeners,
                   currentSessinId, chat, pendingQuery, lastOk, lastOkQuery>>

\* the response to create request number n is handled
createSessionResume(n, resp) ==
    /\ \E r \in pendingCreate : r.req = n
    /\ LET r == CHOOSE c \in pendingCreate : c.req = n
           newSessinId == callCreateSession(resp)
       IN /\ pendingCreate' = pendingCreate \ {r}
          /\ currentSessinId' = createSessionAssign(currentSessinId, r, newSessinId)
          /\ lastOk' = IF newSessinId.t = "object"
                       THEN [req |-> r.req, sid |-> newSessinId.session_id,
                             prev |-> currentSessinId]
                       ELSE lastOk
          /\ last' = Step("createSessionResume", "none", FALSE, Logged(resp), resp,
                          r.sidClick, chat, r.okClick # lastOk.req)
    /\ UNCHANGED <<pcLoad, toolsRequests, toolList, container, checked, listeners,
                   chat, pendingQuery, nreq, lastOkQuery>>

(* ---------------- send query ---------------- *)
\* click on #send-message-btn: sendQuery up to the fetch
sendQuery(query) ==
    /\ listeners
    /\ LET b == sendQueryBranch(currentSessinId, query)
       IN /\ IF b.request
             THEN /\ nreq < MaxRequests
                  /\ nreq' = nreq + 1
                  /\ pendingQuery' = pendingQuery \cup
                        {[req |-> nreq + 1,
                          body |-> [user_id |-> userId, query |-> query,
                                    session_id |-> currentSessinId],
                          chatClick |-> chat,
                          okClick |-> lastOkQuery,
                          okCreate |-> lastOk]}
             ELSE UNCHANGED <<nreq, pendingQuery>>
          /\ last' = Step("sendQuery", b.alert, b.request, FALSE,
                          Failure("network"), currentSessinId, chat, FALSE)
    /\ UNCHANGED <<pcLoad, toolsRequests, toolList, container, checked, listeners,
                   currentSessinId, chat, pendingCreate, lastOk, lastOkQuery>>

\* the response to query request number n is handled
sendQueryResume(n, resp) ==
    /\ \E r \in pendingQuery : r.req = n
    /\ LET r == CHOOSE q \in pendingQuery : q.req = n
           result == callQuery(resp)
       IN /\ pendingQuery' = pendingQuery \ {r}
          /\ chat' = sendQueryDisplay(chat, result)
          /\ lastOkQuery' = IF result.t = "object" THEN r.req ELSE lastOkQuery
          /\ last' = Step("sendQueryResume", "none", FALSE, Logged(resp), resp,
                          currentSessinId, r.chatClick, r.okClick # lastOkQuery)
    /\ UNCHANGED <<pcLoad, toolsRequests, toolList, container, checked, listeners,
                   currentSessinId, pendingCreate, nreq, lastOk>>

(* ---------------- specification ---------------- *)
Next ==
    \/ DOMContentLoaded
    \/ \E resp \in ToolsResponses : initCheckboxResume(resp)
    \/ \E i \in 1..MaxTools : ToggleCheckbox(i)
    \/ createSession
    \/ \E n \in 1..MaxRequests, resp \in CreateResponses : createSessionResume(n, resp)
    \/ \E query \in Queries : sendQuery(query)
    \/ \E n \in 1..MaxRequests, resp \in QueryResponses : sendQueryResume(n, resp)

Spec == Init /\ [][Next]_vars

TypeOK ==
    /\ pcLoad \in {"init", "fetching", "ready", "aborted"}
    /\ toolsRequests \in 0..1
    /\ listeners \in BOOLEAN
    /\ currentSessinId \in SessionIdValues
    /\ nreq \in 0..MaxRequests
    /\ checked \subseteq 1..Len(container)

(* ======================= claims ======================= *)
\* handler steps that handle a response, and the failures the client sees
ResumeOps == {"initCheckbox", "createSessionResume", "sendQueryResume"}
IsFailure(resp) == resp.outcome \in {"network", "status"}
IsObjectBody(resp) == resp.outcome = "ok" /\ resp.body.t = "object"
\* no session is held: the id is null or undefined
NoSession(v) == v \in {Null, Undefined}

\* C1: every POST /query in flight carries a session id that is neither null
\* nor undefined and a non-empty query string.
C1_QueryNeedsSession ==
    \A q \in pendingQuery :
        /\ ~NoSession(q.body.session_id)
        /\ q.body.query # ""
\* a query request is in flight after a session was lost again
C1_Witness ==
    /\ pendingQuery # {}
    /\ NoSession(currentSessinId)

\* C2: a createSession step with no checkbox checked shows the alert, issues
\* no request to any endpoint and leaves the held session id unchanged.
C2_EmptySelectionNoRequest ==
    [][(/\ last'.op = "createSession"
        /\ last' # last
        /\ getSelectedTools(container, checked) = <<>>)
       => /\ last'.alert = "no_tools"
          /\ pendingCreate' = pendingCreate
          /\ pendingQuery' = pendingQuery
          /\ toolsRequests' = toolsRequests
          /\ nreq' = nreq
          /\ currentSessinId' = currentSessinId]_vars
\* the alert was shown while a session is held and checkboxes exist
C2_Witness ==
    /\ last.op = "createSession"
    /\ last.alert = "no_tools"
    /\ Len(container) > 0
    /\ ~NoSession(currentSessinId)

\* C3: a successful create-session response {session_id: s} overwrites the
\* held session id with s, and every query request issued afterwards, up to
\* the next such response, carries session_id s and user_id default_user.
C3_QueriesCarryLatestSession ==
    [][/\ (/\ last'.op = "createSessionResume"
           /\ pendingCreate' # pendingCreate
           /\ IsObjectBody(last'.resp))
          => currentSessinId' = last'.resp.body.session_id
       /\ \A q \in pendingQuery' \ pendingQuery :
            /\ lastOk.req # 0
            /\ q.body.session_id = lastOk.sid
            /\ q.body.user_id = "default_user"]_vars
\* a query carrying abc123 was just sent, and abc123 replaced session xyz789
C3_Witness ==
    /\ last.op = "sendQuery"
    /\ last.request
    /\ lastOk.sid = Str("abc123")
    /\ lastOk.prev = Str("xyz789")
    /\ \E q \in pendingQuery :
          /\ q.okCreate = lastOk
          /\ q.body = [user_id |-> "default_user", query |-> "hi",
                       session_id |-> Str("abc123")]

\* the same session: equal ids, or no session on both sides
SameSession(a, b) == a = b \/ (NoSession(a) /\ NoSession(b))

\* C4 as stated: after a failed create-session the held session id equals
\* its value before the click, and after a failed query the chat display
\* equals its value before the click.
C4_Original ==
    /\ (last.op = "createSessionResume" /\ IsFailure(last.resp))
          => SameSession(currentSessinId, last.sidClick)
    /\ (last.op = "sendQueryResume" /\ IsFailure(last.resp))
          => chat = last.chatClick
\* C4: handling a non-2xx response or a transport failure of any endpoint
\* logs an error and leaves the held session id and the chat display as they
\* were right before the failure was handled; they equal their values before
\* the click when no response of the same kind was assigned in between.
C4_FailureChangesNothing ==
    (last.op \in ResumeOps /\ IsFailure(last.resp))
       => /\ last.logged
          /\ currentSessinId = last.sidPre
          /\ chat = last.chatPre
          /\ (last.op = "createSessionResume" /\ ~last.between)
                => currentSessinId = last.sidClick
          /\ (last.op = "sendQueryResume" /\ ~last.between)
                => chat = last.chatClick
\* a create-session failed while a session was held
C4_Witness ==
    /\ last.op = "createSessionResume"
    /\ IsFailure(last.resp)
    /\ ~NoSession(last.sidPre)

C6_Original ==
    [][(/\ last'.op = "sendQuery"
        /\ last' # last
        /\ NoSession(currentSessinId))
       => /\ last'.alert = "no_session"
          /\ pendingQuery' # pendingQuery]_vars
\* C6: a sendQuery step with no session shows the alert and issues no
\* /query request.
C6_NoSessionNoRequest ==
    [][(/\ last'.op = "sendQuery"
        /\ last' # last
        /\ NoSession(currentSessinId))
       => /\ last'.alert = "no_session"
          /\ pendingQuery' = pendingQuery
          /\ nreq' = nreq]_vars
\* the send button was clicked with no session while a request could be issued
C6_Witness ==
    /\ last.op = "sendQuery"
    /\ last.alert = "no_session"
    /\ NoSession(currentSessinId)
    /\ nreq < MaxRequests

\* C7: after a query response {response: r} is handled the chat display is
\* exactly r, whatever was displayed before.
C7_DisplayReplaced ==
    (/\ last.op = "sendQueryResume"
     /\ IsObjectBody(last.resp)
     /\ last.resp.body.response.t = "string")
       => chat = last.resp.body.response.v
\* a response replaced a different, non-empty text
C7_Witness ==
    /\ last.op = "sendQueryResume"
    /\ IsObjectBody(last.resp)
    /\ last.resp.body.response.t = "string"
    /\ last.chatPre # ""
    /\ last.chatPre # chat

\* C8: page load issues exactly one GET /tools; a fetched catalog of N tools
\* gives exactly N entries, in the catalog's order, with value and label the
\* tool's name and description the tool's description; otherwise no entry.
C8_CatalogRendered ==
    /\ toolsRequests = (IF pcLoad = "init" THEN 0 ELSE 1)
    /\ pcLoad = "ready"
          => /\ Len(container) = Len(toolList.tools.items)
             /\ \A i \in 1..Len(container) :
                   /\ container[i].value = toolList.tools.items[i].name
                   /\ container[i].label = toolList.tools.items[i].name
                   /\ container[i].description = toolList.tools.items[i].description
    /\ pcLoad # "ready" => container = <<>>
\* a catalog of two different tools was rendered
C8_Witness ==
    /\ pcLoad = "ready"
    /\ Len(container) = 2
    /\ container[1].value # container[2].value

\* C9 as stated: once the load handler is over, also after a failed catalog
\* fetch, clicks on the two buttons run createSession and sendQuery.
C9_Claim ==
    pcLoad \in {"ready", "aborted"} => listeners

\* C10: create-session responses are assigned in order of arrival: the held
\* session id is the one of the response that arrived last, also when its
\* click was the earlier one, and a query sent while an earlier click's
\* request is still in flight carries the id of the response that arrived.
C10_LastArrivalWins ==
    /\ lastOk.req # 0 => currentSessinId = lastOk.sid
    /\ (/\ last.op = "createSessionResume"
        /\ IsObjectBody(last.resp)
        /\ last.between)
          => currentSessinId = last.resp.body.session_id
    /\ \A q \in pendingQuery, c \in pendingCreate :
          c.req < q.okCreate.req => q.body.session_id = q.okCreate.sid
\* the session held is that of the earlier click, and a query sent between
\* the two responses carries the session of the later click
C10_Witness ==
    /\ lastOk.req # 0
    /\ last.op = "createSessionResume"
    /\ last.between
    /\ \E q \in pendingQuery :
          /\ q.okCreate.req > lastOk.req
          /\ q.req > q.okCreate.req
          /\ q.body.session_id = q.okCreate.sid
          /\ q.body.session_id # currentSessinId
    /\ ~NoSession(currentSessinId)
====
